---- MODULE Spec2Model ----
(***************************************************************************)
(* config-master: resolution of a declarative configuration tree           *)
(* (src/main.go, package configmaster, lines 104-383).                     *)
(*                                                                         *)
(* A Go interface{} value is a pair <<dynamic type, payload>>.  The        *)
(* dynamic types are those a decoded tree can hold: "string", "bool",      *)
(* "float64", "int", "nil" (the nil interface), "slice" ([]interface{})    *)
(* and "map" (map[string]interface{}).                                     *)
(***************************************************************************)
EXTENDS Integers, Sequences, FiniteSets, TLC

VARIABLES input, env, pc, cfg, err, ret, stack, visits

vars == <<input, env, pc, cfg, err, ret, stack, visits>>

-----------------------------------------------------------------------------
(* Values *)

Str(s) == <<"string", s>>
Bool(b) == <<"bool", b>>
F64(n) == <<"float64", n>>
IntV(n) == <<"int", n>>
Nil == <<"nil", "nil">>
Slice(s) == <<"slice", s>>
Map(f) == <<"map", f>>

TypeOf(v) == v[1]
IsString(v) == TypeOf(v) = "string"
IsSlice(v) == TypeOf(v) = "slice"
IsMap(v) == TypeOf(v) = "map"

\* the keys of a map[string]interface{} and the value under a key
Keys(m) == DOMAIN m[2]
Has(m, k) == k \in Keys(m)
Val(m, k) == m[2][k]

\* Go's == on two interface values panics when both hold the same
\* uncomparable dynamic type (a slice or a map)
Uncomparable(v) == TypeOf(v) \in {"slice", "map"}

-----------------------------------------------------------------------------
(* Results of the functions: a value, an error or a run-time panic *)

Ok(v) == <<"ok", v>>
Err(msg, detail) == <<"error", msg, detail>>
Panic == <<"panic", "comparing uncomparable type">>

IsOk(r) == r[1] = "ok"
IsErr(r) == r[1] = "error"
IsPanic(r) == r[1] = "panic"

-----------------------------------------------------------------------------
(* Bounds of the model *)

MaxSliceLen == 2
MaxKeyLen == 3

-----------------------------------------------------------------------------
(* The process environment: os.LookupEnv *)

EnvNames == {"FOO"}
EnvStrings == {"", "a"}
Envs == UNION {[D -> EnvStrings] : D \in SUBSET EnvNames}

LookupEnv(e, name) ==
    IF name \in DOMAIN e THEN Ok(Str(e[name])) ELSE Nil

-----------------------------------------------------------------------------
(* strings.ToLower on the strings of the model: the strings with an upper  *)
(* case letter are listed, every other string of the model is lower case.  *)

LowerTable ==
    [String |-> "string", BOOL |-> "bool", Float64 |-> "float64",
     INT |-> "int", Date |-> "date", FOO |-> "foo", BAR |-> "bar"]

\* ToLower that leaves upper case letters as they are
ToLower_identity(s) == s

ToLower(s) == IF s \in DOMAIN LowerTable THEN LowerTable[s] ELSE s

-----------------------------------------------------------------------------
(* contains: a linear scan with Go's == on interface values *)

RECURSIVE containsFrom(_, _, _)
containsFrom(slice, value, i) ==
    IF i > Len(slice) THEN "false"
    ELSE IF TypeOf(slice[i]) = TypeOf(value) /\ Uncomparable(value) THEN "panic"
    ELSE IF slice[i] = value THEN "true"
    ELSE containsFrom(slice, value, i + 1)

contains(slice, value) == containsFrom(slice, value, 1)

getDefaultValue(config) ==
    IF Has(config, "default") THEN Val(config, "default") ELSE Str("")

\* isValueInExpectedFormat returns Nil (no error), an error or panics
isValueInExpectedFormat(value, format) ==
    LET valueType == TypeOf(value) IN
    CASE IsSlice(format) ->
            LET found == contains(format[2], value) IN
            IF found = "panic" THEN Panic
            ELSE IF found = "false"
                 THEN Err("value is not in the expected format. Expected formats:", format)
                 ELSE Nil
      [] IsString(format) ->
            LET tag == ToLower(format[2]) IN
            CASE tag = "string" ->
                    IF valueType # "string" THEN Err("value is not a string", Nil) ELSE Nil
              [] tag = "bool" ->
                    IF valueType # "bool" THEN Err("value is not a boolean", Nil) ELSE Nil
              [] tag = "float64" ->
                    IF valueType # "float64" THEN Err("value is not a float64", Nil) ELSE Nil
              [] tag = "int" ->
                    IF valueType # "int" THEN Err("value is not an int", Nil) ELSE Nil
              [] OTHER -> Nil
      [] OTHER -> Err("invalid format", Nil)

\* the tail of validateAndSetValue: the format check on the chosen value
checkFormat(config, value) ==
    IF Has(config, "format")
    THEN LET e == isValueInExpectedFormat(value, Val(config, "format")) IN
         IF e # Nil THEN e ELSE Ok(value)
    ELSE Ok(value)

\* validateAndSetValue without its pass-through branch: a map with neither a
\* string env nor a default resolves to getDefaultValue, the empty string
validateAndSetValue_alwaysResolve(config, e) ==
    IF Has(config, "env") /\ IsString(Val(config, "env"))
    THEN LET envValue == LookupEnv(e, Val(config, "env")[2]) IN
         IF IsOk(envValue)
         THEN checkFormat(config, envValue[2])
         ELSE checkFormat(config, getDefaultValue(config))
    ELSE checkFormat(config, getDefaultValue(config))

validateAndSetValue(config, e) ==
    IF Has(config, "env") /\ IsString(Val(config, "env"))
    THEN LET envValue == LookupEnv(e, Val(config, "env")[2]) IN
         IF IsOk(envValue)
         THEN checkFormat(config, envValue[2])
         ELSE checkFormat(config, getDefaultValue(config))
    ELSE IF Has(config, "default")
         THEN checkFormat(config, getDefaultValue(config))
         ELSE Ok(config)

isNestedMap(config) == \E key \in Keys(config) : IsMap(Val(config, key))

-----------------------------------------------------------------------------
(* processRecursively.  Go does not specify the order in which `range`     *)
(* visits the entries of a map, so the function is modelled by the set of  *)
(* results it can return: the resolved map when every entry succeeds, and  *)
(* otherwise the failure of whichever failing entry is visited first.      *)
(* The elements of a slice are visited in index order.                     *)

Failures(results) == {r \in results : ~IsOk(r)}
TheValue(results) == (CHOOSE r \in results : IsOk(r))[2]

RECURSIVE processRecursively(_, _)
RECURSIVE processSlice(_, _)

\* the []interface{} case keeping the processed mapping items only
processSlice_mapsOnly(typedValue, e) ==
    LET maps == SelectSeq(typedValue, IsMap)
        item(index) == processRecursively(maps[index], e)
        failing == {index \in 1..Len(maps) : Failures(item(index)) # {}}
    IN  IF failing = {}
        THEN {Ok(Slice([index \in 1..Len(maps) |-> TheValue(item(index))]))}
        ELSE Failures(item(CHOOSE index \in failing : \A j \in failing : index <= j))

\* the []interface{} case of processRecursively
processSlice(typedValue, e) ==
    LET item(index) ==
            IF IsMap(typedValue[index])
            THEN processRecursively(typedValue[index], e)
            ELSE {Ok(typedValue[index])}
        failing == {index \in 1..Len(typedValue) : Failures(item(index)) # {}}
    IN  IF failing = {}
        THEN {Ok(Slice([index \in 1..Len(typedValue) |-> TheValue(item(index))]))}
        ELSE Failures(item(CHOOSE index \in failing : \A j \in failing : index <= j))

processRecursively(config, e) ==
    LET entry(key) ==
            LET value == Val(config, key) IN
            CASE IsMap(value) ->
                    IF ~isNestedMap(value)
                    THEN {validateAndSetValue(value, e)}
                    ELSE processRecursively(value, e)
              [] IsSlice(value) -> processSlice(value[2], e)
              [] OTHER -> {Ok(value)}
        failures == UNION {Failures(entry(key)) : key \in Keys(config)}
    IN  IF failures = {}
        THEN {Ok(Map([key \in Keys(config) |-> TheValue(entry(key))]))}
        ELSE failures

-----------------------------------------------------------------------------
(* The stores of processRecursively.  A map or slice is an object; the     *)
(* object at the place `at` of the caller's tree is <<"config", at>> and   *)
(* the one the call makes for that place is <<"processed", at>>.  A place  *)
(* is the sequence of the keys and indexes that lead to it.                *)

\* processedConfig bound to the argument instead of a map of its own
processedConfig_alias(at) == <<"config", at>>

\* processedConfig := make(map[string]interface{})
processedConfig(at) == <<"processed", at>>

\* processedSlice := make([]interface{}, len(typedValue))
processedSlice(at) == <<"processed", at>>

\* the stores <<object, key or index>> of processRecursively(config), where
\* config is the map at the place `at`, when no entry fails
RECURSIVE Stores(_, _)
Stores(config, at) ==
    UNION {
        LET value == Val(config, key)
            below == Append(at, <<"key", key>>)
        IN  {<<processedConfig(at), <<"key", key>>>>} \cup
            (CASE IsMap(value) ->
                    IF ~isNestedMap(value) THEN {} ELSE Stores(value, below)
               [] IsSlice(value) ->
                    UNION {
                        {<<processedSlice(below), <<"index", index>>>>} \cup
                        (IF IsMap(value[2][index])
                         THEN Stores(value[2][index], Append(below, <<"index", index>>))
                         ELSE {})
                        : index \in 1..Len(value[2])}
               [] OTHER -> {})
        : key \in Keys(config)}

\* the value at a place of the caller's tree once the stores are done: an
\* entry stored into an object of the caller holds the processed value
RECURSIVE AfterStores(_, _, _, _)
AfterStores(value, processed, at, stores) ==
    LET entry(step, old, new) ==
            IF <<<<"config", at>>, step>> \in stores THEN new
            ELSE AfterStores(old, new, Append(at, step), stores)
    IN  IF IsMap(value) /\ IsMap(processed)
        THEN Map([key \in Keys(value) |->
                    entry(<<"key", key>>, Val(value, key), Val(processed, key))])
        ELSE IF IsSlice(value) /\ IsSlice(processed) /\ Len(value[2]) = Len(processed[2])
        THEN Slice([index \in 1..Len(value[2]) |->
                    entry(<<"index", index>>, value[2][index], processed[2][index])])
        ELSE value

\* the caller's map after processRecursively(config) has returned `processed`
callerMapAfter(config, processed) ==
    IF processed = Nil THEN config
    ELSE AfterStores(config, processed, <<>>, Stores(config, <<>>))

\* validateAndSetValue takes its result from getDefaultValue(config)
returnsDefault(config, e) ==
    IF Has(config, "env") /\ IsString(Val(config, "env"))
    THEN ~IsOk(LookupEnv(e, Val(config, "env")[2]))
    ELSE Has(config, "default")

\* validateAndSetValue returns its argument: return config, nil
returnsConfig(config) ==
    /\ ~(Has(config, "env") /\ IsString(Val(config, "env")))
    /\ ~Has(config, "default")

\* The objects the processed tree takes over from the caller's tree: the
\* pairs <<place in the processed tree, place in the caller's tree>> such
\* that processRecursively(config) stores at the first the very map or
\* slice that the caller holds at the second, when no entry fails.
RECURSIVE Shared(_, _, _)
Shared(config, at, e) ==
    UNION {
        LET value == Val(config, key)
            below == Append(at, <<"key", key>>)
        IN  CASE IsMap(value) ->
                    IF isNestedMap(value) THEN Shared(value, below, e)
                    ELSE IF returnsConfig(value) THEN {<<below, below>>}
                    ELSE IF /\ returnsDefault(value, e)
                            /\ Has(value, "default")
                            /\ Uncomparable(Val(value, "default"))
                         THEN {<<below, Append(below, <<"key", "default">>)>>}
                         ELSE {}
              [] IsSlice(value) ->
                    UNION {
                        LET item == value[2][index]
                            element == Append(below, <<"index", index>>)
                        IN  IF IsMap(item) THEN Shared(item, element, e)
                            ELSE IF IsSlice(item) THEN {<<element, element>>}
                            ELSE {}
                        : index \in 1..Len(value[2])}
              [] OTHER -> {}
        : key \in Keys(config)}

-----------------------------------------------------------------------------
(* NewConfig and its input.  The input is a map, a file name (modelled by  *)
(* what opening, reading and decoding that file yields) or another type.   *)

parseFromFile(file) ==
    CASE file[1] = "missing" -> Err("error opening file: ", Nil)
      [] file[1] = "unreadable" -> Err("error reading file: ", Nil)
      [] file[1] = "malformed" -> Err("error parsing JSON from file: ", Nil)
      [] OTHER -> Ok(file[2])

\* parseInput taking an input of any other type for an empty configuration
parseInput_lenient(inp) ==
    CASE inp[1] = "string" -> parseFromFile(inp[2])
      [] inp[1] = "map" -> Ok(inp)
      [] OTHER -> Ok(Map(<<>>))

parseInput(inp) ==
    CASE inp[1] = "string" -> parseFromFile(inp[2])
      [] inp[1] = "map" -> Ok(inp)
      [] OTHER -> Err("unsupported input type: ", Str(inp[1]))

\* NewConfig applying the per-node rule to the root: a root with no
\* mapping-typed value is resolved by validateAndSetValue like any flat map
NewConfigResults_rootAsNode(inp, e) ==
    LET parsed == parseInput(inp) IN
    IF IsErr(parsed)
    THEN {<<Nil, parsed>>}
    ELSE {IF IsOk(r) THEN <<<<"Config", r[2]>>, Nil>>
          ELSE IF IsErr(r) THEN <<Nil, Err("[Config-Master]: " \o r[2], r[3])>>
          ELSE r
          : r \in IF isNestedMap(parsed[2])
                  THEN processRecursively(parsed[2], e)
                  ELSE {validateAndSetValue(parsed[2], e)}}

\* the results NewConfig can return: <<config, error>>, or a panic
NewConfigResults(inp, e) ==
    LET parsed == parseInput(inp) IN
    IF IsErr(parsed)
    THEN {<<Nil, parsed>>}
    ELSE {IF IsOk(r) THEN <<<<"Config", r[2]>>, Nil>>
          ELSE IF IsErr(r) THEN <<Nil, Err("[Config-Master]: " \o r[2], r[3])>>
          ELSE r
          : r \in processRecursively(parsed[2], e)}

-----------------------------------------------------------------------------
(* Get and getNested.  A key is a sequence of characters; strings.Contains *)
(* and strings.Split work on it, and a part is looked up as a Go string.   *)

Chars == {"a", "."}

RECURSIVE StringOf(_)
StringOf(chars) ==
    IF chars = <<>> THEN "" ELSE Head(chars) \o StringOf(Tail(chars))

Contains(key, sep) == \E i \in 1..Len(key) : key[i] = sep

RECURSIVE SplitFrom(_, _, _, _)
SplitFrom(key, sep, i, part) ==
    IF i > Len(key) THEN <<StringOf(part)>>
    ELSE IF key[i] = sep
         THEN <<StringOf(part)>> \o SplitFrom(key, sep, i + 1, <<>>)
         ELSE SplitFrom(key, sep, i + 1, Append(part, key[i]))

Split(key, sep) == SplitFrom(key, sep, 1, <<>>)

\* data[key] on a map[string]interface{}: the nil interface when absent
Index(data, key) == IF Has(data, key) THEN Val(data, key) ELSE Nil

RECURSIVE getNestedFrom(_, _, _)
getNestedFrom(value, parts, i) ==
    IF i > Len(parts) THEN value
    ELSE IF ~IsMap(value) THEN Nil
    ELSE IF ~Has(value, parts[i]) \/ Val(value, parts[i]) = Nil THEN Nil
    ELSE getNestedFrom(Val(value, parts[i]), parts, i + 1)

getNested(data, key) == getNestedFrom(data, Split(key, "."), 1)

\* Get without the dotted-key branch: every key is a top-level lookup
Get_topLevelOnly(data, key) == Index(data, StringOf(key))

Get(data, key) ==
    IF Contains(key, ".") THEN getNested(data, key)
    ELSE Index(data, StringOf(key))

-----------------------------------------------------------------------------
(* The inputs of the model *)

Absent == <<"absent", "absent">>
DirectiveKeys == {"env", "default", "format"}

\* the map with the given entries under env, default and format (Absent: no entry)
Directives(e, d, f) ==
    LET v == [k \in DirectiveKeys |->
                 IF k = "env" THEN e ELSE IF k = "default" THEN d ELSE f]
    IN  [k \in {k \in DirectiveKeys : v[k] # Absent} |-> v[k]]

\* all sequences over S of length at most n
SeqsUpTo(S, n) == UNION {[1..len -> S] : len \in 0..n}

\* the inputs of the direct calls of the validator
EnumElems == {Str("a"), Str(""), Bool(TRUE), Slice(<<Str("a")>>)}
EnumFormats == {Slice(s) : s \in SeqsUpTo(EnumElems, MaxSliceLen)}
TagFormats ==
    {Str(t) : t \in {"string", "bool", "float64", "int",
                     "String", "BOOL", "Float64", "INT"}}
OtherFormats == {Str("date"), Str("Date"), Str(""), IntV(42), Nil, Bool(TRUE), Map(<<>>)}
Formats == EnumFormats \cup TagFormats \cup OtherFormats
Values ==
    {Str(""), Str("a"), Str("b"), Bool(TRUE), F64(1), IntV(1), Nil,
     Slice(<<>>), Slice(<<Str("a")>>), Map(<<>>)}

\* the flat maps validateAndSetValue is called on directly
EnvEntries == {Str("FOO"), Str("BAR"), IntV(1)}
DefaultEntries == Values \ {Map(<<>>)}
FlatMaps ==
    {Map(Directives(e, d, f)) : e \in EnvEntries \cup {Absent},
                                d \in DefaultEntries \cup {Absent},
                                f \in (Formats \ {Map(<<>>)}) \cup {Absent}}
      \cup {Map("doc" :> Str("a")), Map("doc" :> Str("a") @@ "format" :> Str("bool"))}

\* the trees NewConfig is called on
Leaf(e, d, f) == Map(Directives(e, d, f))
TreeDefaults == {Str("a"), Str("b"), Bool(TRUE), Slice(<<Str("a")>>)}
TreeFormats ==
    {Slice(<<Str("a")>>), Slice(<<Slice(<<Str("a")>>)>>),
     Str("string"), Str("BOOL"), Str("date"), IntV(42)}
Leaves ==
    {Leaf(e, d, f) : e \in {Str("FOO"), Absent},
                     d \in TreeDefaults \cup {Absent},
                     f \in TreeFormats \cup {Absent}}

EnvOrDefault == Leaf(Str("FOO"), Str("b"), Absent)
EnvInEnum == Leaf(Str("FOO"), Str("a"), Slice(<<Str("a")>>))
NotInEnum == Leaf(Absent, Str("b"), Slice(<<Str("a")>>))
NotABool == Leaf(Absent, Str("a"), Str("bool"))
FormatOnly == Leaf(Absent, Absent, Slice(<<Str("a")>>))
FewLeaves == {EnvOrDefault, EnvInEnum, NotInEnum, NotABool, FormatOnly}

Scalars == {Str("a"), IntV(1), Nil}
PlainMaps == {Map("a" :> Str("a")), Map("a" :> Nil), Map("a" :> Slice(<<Str("a")>>))}
Containers ==
    {Map("a" :> l) : l \in FewLeaves}
      \cup {Map("a" :> l1 @@ "b" :> l2) : l1 \in FewLeaves, l2 \in {NotInEnum, NotABool}}
      \cup {Map("a" :> l @@ Directives(Str("FOO"), Str("b"), Slice(<<Str("a")>>))) :
              l \in FewLeaves \cup PlainMaps}
      \cup {Map("a" :> Map("a" :> l)) : l \in FewLeaves \cup Scalars}
SliceElems ==
    {Str("a"), EnvOrDefault, NotABool, Map("a" :> EnvInEnum),
     Slice(<<Map("a" :> NotInEnum)>>)}
PlainSlices ==
    {Slice(<<Str("a"), Nil>>), Slice(<<Map("a" :> Str("a")), Map(<<>>)>>),
     Slice(<<Slice(<<Str("a"), Map("a" :> Nil)>>), Slice(<<>>)>>)}
Slices == {Slice(s) : s \in SeqsUpTo(SliceElems, MaxSliceLen)} \cup PlainSlices
FlatWithSlice ==
    {Map("a" :> Slice(<<Map("a" :> l)>>)) : l \in FewLeaves}
      \cup {Map("a" :> Slice(<<EnvOrDefault>>) @@ "default" :> Str("a"))}
Nodes == Scalars \cup Leaves \cup PlainMaps \cup Containers \cup Slices \cup FlatWithSlice
Siblings == {Str("a"), NotInEnum, NotABool}
Trees ==
    {Map("a" :> n) : n \in Nodes}
      \cup {Map("a" :> n @@ "b" :> m) : n \in FewLeaves \cup Scalars, m \in Siblings}
      \cup {Map(Directives(Str("FOO"), Str("b"), Str("bool")) @@ f) :
              f \in {<<>>, "a" :> EnvOrDefault, "a" :> NotInEnum}}
      \cup {Map(Directives(Str("FOO"), d, Slice(<<Str("a")>>))) : d \in {Str("b"), EnvOrDefault}}
      \cup {Map(<<>>), Map("a.a" :> Str("a"))}

\* what a file name stands for: the outcome of opening, reading and decoding it
Files ==
    {<<"missing", Nil>>, <<"unreadable", Nil>>, <<"malformed", Nil>>}
      \cup {<<"json", t>> : t \in {Map("a" :> EnvInEnum), Map("a" :> NotInEnum),
                                  Map("a" :> Map("a" :> Str("a")))}}
Inputs == Trees \cup {<<"string", f>> : f \in Files} \cup {IntV(123)}

DeepKey == <<"a", ".", "a", ".", "a">>
GetKeys == SeqsUpTo(Chars, MaxKeyLen) \cup {DeepKey}

-----------------------------------------------------------------------------
(* The program: a caller builds a Config with NewConfig and reads it with  *)
(* Get.                                                                    *)

Init ==
    /\ input \in Inputs
    /\ env \in Envs
    /\ pc = "start"
    /\ cfg = Nil
    /\ err = Nil
    /\ ret = <<>>
    /\ stack = <<>>
    /\ visits = <<>>

NewConfig ==
    /\ pc = "start"
    /\ \E r \in NewConfigResults(input, env) :
          IF IsPanic(r)
          THEN /\ pc' = "panicked"
               /\ input' = input
               /\ UNCHANGED <<cfg, err>>
          ELSE /\ cfg' = r[1]
               /\ err' = r[2]
               /\ pc' = IF r[1] = Nil THEN "failed" ELSE "ready"
               /\ input' = IF IsMap(input)
                           THEN callerMapAfter(input, IF r[1] = Nil THEN Nil ELSE r[1][2])
                           ELSE input
    /\ UNCHANGED <<env, ret, stack, visits>>

CallGet ==
    /\ pc \in {"ready", "stored"}
    /\ \E key \in GetKeys : ret' = <<key, Get(cfg[2], key)>>
    /\ UNCHANGED <<input, env, pc, cfg, err, stack, visits>>

Next == NewConfig \/ CallGet

Spec == Init /\ [][Next]_vars

-----------------------------------------------------------------------------
(* The validator and the leaf resolution called directly, as the unit      *)
(* tests of the package call them.                                         *)

Calls ==
    {<<"validateAndSetValue", config>> : config \in FlatMaps}
      \cup {<<"isValueInExpectedFormat", value, format>> :
              value \in Values, format \in Formats}

InitCalls ==
    /\ input \in Calls
    /\ env \in Envs
    /\ pc = "call"
    /\ cfg = Nil
    /\ err = Nil
    /\ ret = <<>>
    /\ stack = <<>>
    /\ visits = <<>>

CallValidateAndSetValue ==
    /\ pc = "call"
    /\ input[1] = "validateAndSetValue"
    /\ ret' = validateAndSetValue(input[2], env)
    /\ pc' = IF IsPanic(ret') THEN "panicked" ELSE "returned"
    /\ UNCHANGED <<input, env, cfg, err, stack, visits>>

CallIsValueInExpectedFormat ==
    /\ pc = "call"
    /\ input[1] = "isValueInExpectedFormat"
    /\ ret' = isValueInExpectedFormat(input[2], input[3])
    /\ pc' = IF IsPanic(ret') THEN "panicked" ELSE "returned"
    /\ UNCHANGED <<input, env, cfg, err, stack, visits>>

NextCalls == CallValidateAndSetValue \/ CallIsValueInExpectedFormat

SpecCalls == InitCalls /\ [][NextCalls]_vars

-----------------------------------------------------------------------------
(* What the claims are stated in: positions of a tree, schema leaves and   *)
(* the resolution and validation rules of the specification.               *)

\* a position is a sequence of steps <<"key", k>> and <<"index", i>>
RECURSIVE Positions(_)
Positions(v) ==
    {<<>>} \cup
    (IF IsMap(v)
     THEN UNION {{<<<<"key", k>>>> \o p : p \in Positions(Val(v, k))} : k \in Keys(v)}
     ELSE IF IsSlice(v)
     THEN UNION {{<<<<"index", i>>>> \o p : p \in Positions(v[2][i])} : i \in 1..Len(v[2])}
     ELSE {})

RECURSIVE At(_, _)
At(v, p) ==
    IF p = <<>> THEN v
    ELSE LET step == Head(p) IN
         IF step[1] = "key"
         THEN IF IsMap(v) /\ Has(v, step[2]) THEN At(Val(v, step[2]), Tail(p)) ELSE Absent
         ELSE IF IsSlice(v) /\ step[2] \in 1..Len(v[2])
              THEN At(v[2][step[2]], Tail(p))
              ELSE Absent

\* a mapping with no mapping-typed direct value that carries a directive key
IsSchemaLeaf(v) ==
    /\ IsMap(v)
    /\ \A k \in Keys(v) : ~IsMap(Val(v, k))
    /\ Keys(v) \cap DirectiveKeys # {}

\* a mapping with a mapping-typed direct value
IsContainer(v) == IsMap(v) /\ \E k \in Keys(v) : IsMap(Val(v, k))

\* the positions of the mappings the resolver of the specification evaluates
\* (section 4.2): the mapping-typed values of the root and of the containers,
\* and the mapping-typed elements of the sequences that are such values
Evaluated(tree, p) ==
    /\ p # <<>>
    /\ IsMap(At(tree, p))
    /\ \A n \in 1..(Len(p) - 1) :
          LET node == At(tree, SubSeq(p, 1, n)) IN
          \/ IsContainer(node)
          \/ IsSlice(node) /\ p[n][1] = "key"

\* the positions of the schema leaves among them
LeafPositions(tree) ==
    {p \in Positions(tree) : Evaluated(tree, p) /\ IsSchemaLeaf(At(tree, p))}

\* the tree NewConfig resolves: the map given, or the map decoded from the file
InputTree == IF IsMap(input) THEN input ELSE input[2][2]

\* the leaf's env names a variable that is set
EnvIsSet(leaf, e) ==
    /\ Has(leaf, "env")
    /\ IsString(Val(leaf, "env"))
    /\ Val(leaf, "env")[2] \in DOMAIN e

\* the leaf's env is absent or names a variable that is not set
EnvYieldsNothing(leaf, e) ==
    \/ ~Has(leaf, "env")
    \/ IsString(Val(leaf, "env")) /\ Val(leaf, "env")[2] \notin DOMAIN e

\* the value the specification resolves a leaf to (env content, default, or "")
ResolvedValue(leaf, e) ==
    IF EnvIsSet(leaf, e) THEN Str(e[Val(leaf, "env")[2]])
    ELSE IF Has(leaf, "default") THEN Val(leaf, "default")
    ELSE Str("")

\* the type tags of the specification, in any case
TagNames ==
    [string |-> "string", String |-> "string", bool |-> "bool", BOOL |-> "bool",
     float64 |-> "float64", Float64 |-> "float64", int |-> "int", INT |-> "int"]

IsEnumeration(format) == IsSlice(format)
IsTypeTag(format) == IsString(format) /\ format[2] \in DOMAIN TagNames

\* the validator of the specification: membership by structural equality, or
\* the runtime type named by the tag; any other format is rejected
Accepts(value, format) ==
    IF IsEnumeration(format) THEN \E i \in 1..Len(format[2]) : format[2][i] = value
    ELSE IF IsTypeTag(format) THEN TypeOf(value) = TagNames[format[2]]
    ELSE FALSE

-----------------------------------------------------------------------------
(* C1: for every schema leaf whose env names a variable that is set, the   *)
(* resolved value at that position equals the variable's string content,   *)
(* whatever default is, including when the content is the empty string.    *)

C1_EnvContentAtLeafPosition ==
    pc = "ready" =>
        \A p \in LeafPositions(InputTree) :
            EnvIsSet(At(InputTree, p), env) =>
                At(cfg[2], p) = Str(env[Val(At(InputTree, p), "env")[2]])

(* C2: for every schema leaf whose env is absent or names an unset         *)
(* variable and whose default is present, the resolved value equals the    *)
(* default entry exactly, its value type preserved.                        *)

C2_DefaultAtLeafPosition ==
    pc = "ready" =>
        \A p \in LeafPositions(InputTree) :
            LET leaf == At(InputTree, p) IN
            (EnvYieldsNothing(leaf, env) /\ Has(leaf, "default")) =>
                At(cfg[2], p) = Val(leaf, "default")

\* a direct call of validateAndSetValue on a schema leaf has returned or panicked
LeafResolved ==
    /\ pc \in {"returned", "panicked"}
    /\ input[1] = "validateAndSetValue"
    /\ IsSchemaLeaf(input[2])

(* C3: for every schema leaf for which neither env yields a value nor      *)
(* default is present, the resolved value is the empty string, and this    *)
(* outcome is a success rather than an error (here: whenever the leaf has  *)
(* no format, or a format that accepts the empty string).                  *)

C3_EmptyStringFallback ==
    (/\ LeafResolved
     /\ EnvYieldsNothing(input[2], env)
     /\ ~Has(input[2], "default")
     /\ Has(input[2], "format") => Accepts(Str(""), Val(input[2], "format")))
        => ret = Ok(Str(""))

(* C4: for every schema leaf whose format is an enumeration sequence,      *)
(* resolution succeeds if and only if the leaf's resolved value (env       *)
(* content, default or the empty-string fallback) equals some element of   *)
(* the sequence; otherwise it fails with a format-violation error.         *)

C4_EnumerationDecidesResolution ==
    (/\ LeafResolved
     /\ Has(input[2], "format")
     /\ IsEnumeration(Val(input[2], "format")))
        => LET member == Accepts(ResolvedValue(input[2], env), Val(input[2], "format"))
           IN  /\ IsOk(ret) <=> member
               /\ ~member =>
                    /\ IsErr(ret)
                    /\ ret[2] = "value is not in the expected format. Expected formats:"

(* C5: resolution is fail-fast and all-or-nothing: if any leaf at any      *)
(* depth (leaves reached through sequences included) violates its format,  *)
(* NewConfig returns exactly one error and no Config, whatever the order   *)
(* the entries are visited in; when no leaf violates its format it returns *)
(* a Config and no error.                                                  *)

SomeLeafViolatesItsFormat ==
    \E p \in LeafPositions(InputTree) :
        LET leaf == At(InputTree, p) IN
        /\ Has(leaf, "format")
        /\ ~Accepts(ResolvedValue(leaf, env), Val(leaf, "format"))

C5_FailFastAllOrNothing ==
    (pc # "start" /\ IsOk(parseInput(input))) =>
        IF SomeLeafViolatesItsFormat
        THEN pc = "failed" /\ cfg = Nil /\ IsErr(err)
        ELSE pc = "ready" /\ cfg # Nil /\ err = Nil

(* C6: for every tree that has none of the directive keys at any depth     *)
(* (any nesting of mappings, sequences, scalars, nulls and empty           *)
(* mappings), resolve succeeds and returns a tree deeply equal to the      *)
(* input.                                                                  *)

DirectiveFree(tree) ==
    \A p \in Positions(tree) :
        IsMap(At(tree, p)) => Keys(At(tree, p)) \cap DirectiveKeys = {}

C6_DirectiveFreeTreeUnchanged ==
    (pc # "start" /\ IsOk(parseInput(input)) /\ DirectiveFree(InputTree)) =>
        /\ pc = "ready"
        /\ err = Nil
        /\ cfg = <<"Config", InputTree>>

\* a directive-free tree with a mapping inside a sequence has been resolved
C6_Witness ==
    /\ pc = "ready"
    /\ DirectiveFree(InputTree)
    /\ \E p \in Positions(InputTree) :
          /\ Len(p) = 2
          /\ p[2][1] = "index"
          /\ IsMap(At(InputTree, p))
          /\ At(cfg[2], p) = At(InputTree, p)

(* C7: Get(key) returns the value obtained by splitting the key on '.'     *)
(* and indexing the tree part by part from the top-level mapping; if a     *)
(* part is missing, maps to null or must be looked up in a value that is   *)
(* not a mapping, Get returns nil.                                         *)

\* the parts of a key: the stretches of characters between its separators
Separators(key) == {i \in 1..Len(key) : key[i] = "."}
PartStarts(key) == {1} \cup {i + 1 : i \in Separators(key)}
PartFrom(key, start) ==
    LET stop == CHOOSE j \in start..(Len(key) + 1) :
                    /\ j \in Separators(key) \cup {Len(key) + 1}
                    /\ \A i \in start..(j - 1) : i \notin Separators(key)
    IN  StringOf(SubSeq(key, start, stop - 1))
NthStart(key, n) ==
    CHOOSE s \in PartStarts(key) : Cardinality({t \in PartStarts(key) : t < s}) = n - 1
Parts(key) ==
    [n \in 1..Cardinality(PartStarts(key)) |-> PartFrom(key, NthStart(key, n))]

RECURSIVE IndexedBy(_, _)
IndexedBy(value, parts) ==
    IF parts = <<>> THEN value
    ELSE IF IsMap(value) /\ Has(value, Head(parts)) /\ Val(value, Head(parts)) # Nil
         THEN IndexedBy(Val(value, Head(parts)), Tail(parts))
         ELSE Nil

C7_GetIndexesPartByPart ==
    ret # <<>> => ret[2] = IndexedBy(cfg[2], Parts(ret[1]))

\* a Get with a dotted key has returned a value found below the top level
C7_Witness ==
    /\ ret # <<>>
    /\ Contains(ret[1], ".")
    /\ ret[2] # Nil

(* C8: after a successful resolve, at every position where the input held  *)
(* a schema leaf (under mappings or inside sequences) the output holds the *)
(* leaf's resolved value and not a mapping still carrying directive keys.  *)

C8_NoResidualDirectives ==
    pc = "ready" =>
        \A p \in LeafPositions(InputTree) :
            /\ At(cfg[2], p) = ResolvedValue(At(InputTree, p), env)
            /\ ~(IsMap(At(cfg[2], p)) /\ Keys(At(cfg[2], p)) \cap DirectiveKeys # {})

\* a direct call of isValueInExpectedFormat has returned or panicked
Validated ==
    /\ pc \in {"returned", "panicked"}
    /\ input[1] = "isValueInExpectedFormat"

(* C9: if format is a type-tag string, the validator accepts if and only   *)
(* if the runtime type of the value is the primitive the tag names, the    *)
(* tag matched case-insensitively.                                         *)

C9_TypeTagAcceptsItsType ==
    (Validated /\ IsTypeTag(input[3])) =>
        /\ ret = Nil <=> TypeOf(input[2]) = TagNames[input[3][2]]
        /\ ret # Nil => IsErr(ret)

\* an upper-case tag has accepted a value of the type it names
C9_Witness ==
    /\ Validated
    /\ input[3] = Str("BOOL")
    /\ input[2] = Bool(TRUE)
    /\ ret = Nil

(* C10: a format that is neither an enumeration sequence nor a recognized  *)
(* type-tag string makes the validator reject, with an invalid-format      *)
(* condition distinct from the value-does-not-match conditions.            *)

C10_UnrecognizedFormatRejected ==
    (Validated /\ ~IsEnumeration(input[3]) /\ ~IsTypeTag(input[3])) =>
        ret = Err("invalid format", Nil)

(* C11: the root mapping is always processed as a container and never      *)
(* evaluated as a schema leaf: env, default and format entries at the top  *)
(* level are ordinary entries (copied, or resolved as children if they are *)
(* mappings), the environment is not consulted for the root's env and the  *)
(* root's format is never validated.                                       *)

\* no mapping at any depth of the value
NoMappingInside(v) == \A p \in Positions(v) : ~IsMap(At(v, p))

\* the directive keys of the root
RootDirectives == IF IsMap(InputTree) THEN Keys(InputTree) \cap DirectiveKeys ELSE {}

\* a child of the root that the specification resolves without the fallback
ResolvableLeaf(v) ==
    IsSchemaLeaf(v) /\ (EnvIsSet(v, env) \/ Has(v, "default")) /\ ~Has(v, "format")

C11_RootIsAlwaysAContainer ==
    (pc # "start" /\ IsOk(parseInput(input)) /\ RootDirectives # {}) =>
        /\ pc = "ready" =>
              /\ Keys(cfg[2]) = Keys(InputTree)
              /\ \A k \in RootDirectives :
                    LET v == Val(InputTree, k) IN
                    /\ NoMappingInside(v) => Val(cfg[2], k) = v
                    /\ ResolvableLeaf(v) => Val(cfg[2], k) = ResolvedValue(v, env)
        /\ (\A k \in Keys(InputTree) : NoMappingInside(Val(InputTree, k))) =>
              pc = "ready" /\ err = Nil /\ cfg[2] = InputTree
        /\ pc = "failed" => SomeLeafViolatesItsFormat

\* a root whose env names a set variable and whose format rejects every string
C11_Witness ==
    /\ pc = "ready"
    /\ IsMap(input)
    /\ EnvIsSet(input, env)
    /\ Has(input, "default")
    /\ Has(input, "format") /\ Val(input, "format") = Str("bool")
    /\ Val(cfg[2], "env") = Val(input, "env")

(* C12: validation reports all errors that are found: when several leaves  *)
(* of a configuration violate their schema, the error NewConfig returns is *)
(* a report covering every violating leaf, not only one of them.           *)

\* the positions of the leaves whose resolved value their format rejects
ViolatingLeaves ==
    {p \in LeafPositions(InputTree) :
        LET leaf == At(InputTree, p) IN
        /\ Has(leaf, "format")
        /\ ~Accepts(ResolvedValue(leaf, env), Val(leaf, "format"))}

\* the error the validator gives for the leaf at a position
LeafError(p) ==
    LET leaf == At(InputTree, p) IN
    isValueInExpectedFormat(ResolvedValue(leaf, env), Val(leaf, "format"))

\* the error NewConfig returns holds the error of the leaf at the position
Covers(report, p) ==
    \/ ~IsErr(LeafError(p))
    \/ report = Err("[Config-Master]: " \o LeafError(p)[2], LeafError(p)[3])

C12_ErrorReportCoversEveryViolation ==
    (pc = "failed" /\ IsOk(parseInput(input)) /\ Cardinality(ViolatingLeaves) > 1) =>
        \A p \in ViolatingLeaves : Covers(err, p)

(* C13: resolve never mutates the caller's input tree: after it returns,   *)
(* with a tree or with an error, every mapping and sequence of the input   *)
(* has exactly the entries and elements it had before the call.            *)

C13_InputNotMutated == [][pc = "start" => input' = input]_vars

\* a resolve whose result differs from the caller's map has returned
C13_Witness ==
    /\ pc = "ready"
    /\ IsMap(input)
    /\ cfg[2] # input

(* C14: if the top-level input to NewConfig is neither a mapping nor a     *)
(* string source, or the string source cannot be opened, read or decoded,  *)
(* NewConfig returns an error and no Config, and resolution never starts.  *)

\* the input is not a mapping and not a source that decodes to one
BadInput ==
    /\ ~IsMap(input)
    /\ input[1] = "string" => input[2][1] # "json"

\* the errors of the input; an error of the resolution starts with [Config-Master]
InputErrors ==
    {"unsupported input type: ", "error opening file: ", "error reading file: ",
     "error parsing JSON from file: "}

C14_BadInputNeverResolved ==
    (pc # "start" /\ BadInput) =>
        /\ pc = "failed"
        /\ cfg = Nil
        /\ IsErr(err)
        /\ err[2] \in InputErrors

\* NewConfig has failed on a file that does not decode
C14_Witness ==
    /\ pc = "failed"
    /\ input[1] = "string"
    /\ input[2][1] = "malformed"
    /\ err[2] = "error parsing JSON from file: "

(* C15: a sequence is inspected element by element wherever it occurs      *)
(* (directly under the root, under a container, or as a value of a mapping *)
(* that has no mapping-typed direct values): each mapping element is       *)
(* recursed into, so that the schema leaves below it are resolved and      *)
(* validated, and the non-mapping elements pass through unchanged.         *)

\* the places of the sequences that are values of a mapping the resolved tree keeps
SequencePlaces ==
    {q \in Positions(InputTree) :
        /\ q # <<>>
        /\ IsSlice(At(InputTree, q))
        /\ q[Len(q)][1] = "key"
        /\ \A n \in 1..(Len(q) - 1) : ~IsSchemaLeaf(At(InputTree, SubSeq(q, 1, n)))}

\* the schema leaves reached from the mapping at a place through containers
LeavesBelow(at) ==
    {p \in Positions(InputTree) :
        /\ Len(p) > Len(at)
        /\ SubSeq(p, 1, Len(at)) = at
        /\ IsSchemaLeaf(At(InputTree, p))
        /\ \A n \in Len(at)..(Len(p) - 1) : IsContainer(At(InputTree, SubSeq(p, 1, n)))}

C15_SequencesAlwaysInspected ==
    (pc # "start" /\ IsOk(parseInput(input))) =>
        \A q \in SequencePlaces :
            \A i \in 1..Len(At(InputTree, q)[2]) :
                LET at == Append(q, <<"index", i>>)
                    element == At(InputTree, at)
                IN  IF ~IsMap(element)
                    THEN pc = "ready" => At(cfg[2], at) = element
                    ELSE \A p \in LeavesBelow(at) :
                            LET leaf == At(InputTree, p) IN
                            /\ (/\ Has(leaf, "format")
                                /\ ~Accepts(ResolvedValue(leaf, env), Val(leaf, "format")))
                                  => pc # "ready"
                            /\ (pc = "ready" /\ (EnvIsSet(leaf, env) \/ Has(leaf, "default")))
                                  => At(cfg[2], p) = ResolvedValue(leaf, env)

(* C16: a mapping that is an element of a sequence is resolved by the same *)
(* per-node rule as a mapping that is a value of a container: a sequence   *)
(* element that is itself a schema leaf is replaced in the output sequence *)
(* by its resolved value and is validated against its format.              *)

\* the places of the schema leaves that are elements of a sequence
ElementLeaves ==
    {p \in LeafPositions(InputTree) : p[Len(p)][1] = "index"}

C16_SequenceElementLeafResolved ==
    (pc # "start" /\ IsOk(parseInput(input))) =>
        \A p \in ElementLeaves :
            LET leaf == At(InputTree, p) IN
            /\ (/\ Has(leaf, "format")
                /\ ~Accepts(ResolvedValue(leaf, env), Val(leaf, "format")))
                  => pc # "ready"
            /\ pc = "ready" => At(cfg[2], p) = ResolvedValue(leaf, env)

(* C17: whenever a candidate leaf carries format, the validator is run on  *)
(* the leaf's resolved value (env content, default, or the empty-string    *)
(* fallback): resolve never succeeds on a tree that contains a non-root    *)
(* flat mapping with a format key whose resolved value the validator       *)
(* rejects, a mapping with format but neither env nor default included.    *)

\* the validator rejects the resolved value of the flat mapping
ValidatorRejects(leaf) ==
    /\ Has(leaf, "format")
    /\ isValueInExpectedFormat(ResolvedValue(leaf, env), Val(leaf, "format")) # Nil

C17_FormatAlwaysValidated ==
    (LeafResolved /\ ValidatorRejects(input[2])) => ~IsOk(ret)

(* C18: a non-root mapping is treated as a container if and only if at     *)
(* least one of its direct values is a mapping (a mapping found only       *)
(* inside a sequence value does not count); a container that also carries  *)
(* env, default or format has those directives ignored: the environment is *)
(* not consulted, no validation is done for it, its non-mapping entries    *)
(* are copied unchanged under the same keys and its mapping entries are    *)
(* resolved recursively.                                                   *)

\* the places of the non-root mappings the resolver evaluates
MappingPlaces == {p \in Positions(InputTree) : Evaluated(InputTree, p)}

\* the output holds the mapping at the place processed as a container
TreatedAsContainer(p) ==
    LET node == At(InputTree, p)
        out == At(cfg[2], p)
    IN  /\ IsMap(out)
        /\ Keys(out) = Keys(node)
        /\ \A k \in Keys(node) :
              LET v == Val(node, k) IN
              /\ NoMappingInside(v) => Val(out, k) = v
              /\ ResolvableLeaf(v) => Val(out, k) = ResolvedValue(v, env)

\* the output holds the resolved value of the mapping at the place
TreatedAsLeaf(p) == At(cfg[2], p) = ResolvedValue(At(InputTree, p), env)

C18_ContainerIffDirectMapping ==
    (pc # "start" /\ IsOk(parseInput(input))) =>
        /\ pc = "ready" =>
              \A p \in MappingPlaces :
                  LET node == At(InputTree, p) IN
                  /\ IsContainer(node) => TreatedAsContainer(p)
                  /\ (/\ ~IsContainer(node)
                      /\ EnvIsSet(node, env) \/ Has(node, "default"))
                        => TreatedAsLeaf(p)
        /\ pc = "failed" =>
              \E p \in MappingPlaces :
                  ~IsContainer(At(InputTree, p)) /\ p \in ViolatingLeaves

(* C19: enumeration membership is decided by structural equality and       *)
(* depends only on membership: for every value (a sequence-valued default  *)
(* included) and every enumeration sequence, the validator returns accept  *)
(* or reject without crashing, accepts exactly when some element is        *)
(* structurally equal to the value, and gives the same answer for any      *)
(* reordering of the sequence or duplication of its elements.              *)

\* the elements of an enumeration
Members(format) == {format[2][i] : i \in 1..Len(format[2])}

\* the answer of the validator: accept, reject or a crash
Answer(r) == IF r = Nil THEN "accept" ELSE IF IsErr(r) THEN "reject" ELSE "crash"

C19_MembershipByStructuralEquality ==
    (Validated /\ IsEnumeration(input[3])) =>
        /\ Answer(ret) # "crash"
        /\ Answer(ret) = "accept" <=> input[2] \in Members(input[3])
        /\ \A other \in EnumFormats :
              Members(other) = Members(input[3]) =>
                  Answer(isValueInExpectedFormat(input[2], other)) = Answer(ret)

(* C20: resolution is deterministic: for the same input tree and the same  *)
(* environment every run of resolve produces the same outcome, the same    *)
(* resolved tree on success and the same error (same message) on failure,  *)
(* whatever the order the mapping entries are iterated in, also when two   *)
(* or more leaves violate different formats.                               *)

\* the outcome of the run of NewConfig that the state records
Outcome == IF pc = "panicked" THEN Panic ELSE <<cfg, err>>

C20_ResolutionIsDeterministic ==
    pc # "start" => \A r \in NewConfigResults(input, env) : r = Outcome

-----------------------------------------------------------------------------
(* The caller keeps its tree after NewConfig and stores into one of its    *)
(* maps or slices.  A map or slice that the Config took over from the      *)
(* caller's tree is one object: the store shows in both.                   *)

\* the value with `new` stored at a place (a key of a map, an index of a slice)
RECURSIVE Put(_, _, _)
Put(value, place, new) ==
    IF place = <<>> THEN new
    ELSE LET step == Head(place) IN
         IF step[1] = "key"
         THEN Map([k \in Keys(value) \cup {step[2]} |->
                     IF k = step[2]
                     THEN IF Len(place) = 1 THEN new
                          ELSE Put(Val(value, k), Tail(place), new)
                     ELSE Val(value, k)])
         ELSE Slice([i \in 1..Len(value[2]) |->
                     IF i = step[2] THEN Put(value[2][i], Tail(place), new)
                     ELSE value[2][i]])

\* what the caller stores, and where: m["a"] = "z" for a map, s[0] = "z" for a slice
Stored == Str("z")
StorePlaces ==
    {Append(p, <<"key", "a">>) : p \in {p \in Positions(input) : IsMap(At(input, p))}}
      \cup {Append(p, <<"index", 1>>) :
               p \in {p \in Positions(input) :
                        IsSlice(At(input, p)) /\ Len(At(input, p)[2]) > 0}}

\* the place `under` is the place `top` or lies below it
Under(under, top) ==
    Len(top) <= Len(under) /\ SubSeq(under, 1, Len(top)) = top

\* the resolved tree after the caller's store at a place of its own tree
dataAfterStore(data, place, shared) ==
    LET object == SubSeq(place, 1, Len(place) - 1)
        taken == {pair \in shared : Under(object, pair[2])}
    IN  IF taken = {} THEN data
        ELSE LET pair == CHOOSE pair \in taken : TRUE IN
             Put(data, pair[1] \o SubSeq(place, Len(pair[2]) + 1, Len(place)), Stored)

CallerStores ==
    /\ pc = "ready"
    /\ IsMap(input)
    /\ \E place \in StorePlaces :
          /\ input' = Put(input, place, Stored)
          /\ cfg' = <<"Config", dataAfterStore(cfg[2], place, Shared(input, <<>>, env))>>
    /\ pc' = "stored"
    /\ UNCHANGED <<env, err, ret, stack, visits>>

NextShared == NewConfig \/ CallerStores \/ CallGet

SpecShared == Init /\ [][NextShared]_vars

(* C21: the resolved tree is newly allocated and shares no mutable         *)
(* structure with the input: no mapping or sequence object of the caller's *)
(* input tree is reachable from the resolved tree (pass-through mappings,  *)
(* sequence-valued defaults and sequences nested in sequences included),   *)
(* so a mutation the caller makes to the input tree after NewConfig has    *)
(* returned cannot change any value later returned by Get.                 *)

C21_NoStructureShared ==
    [][/\ (pc = "ready" /\ IsMap(input)) => Shared(input, <<>>, env) = {}
       /\ (pc = "ready" /\ pc' = "stored") =>
             \A key \in GetKeys : Get(cfg'[2], key) = Get(cfg[2], key)]_vars

(* C22: container resolution preserves shape: on success every resolved    *)
(* container mapping has exactly the key set of the corresponding input    *)
(* mapping, every resolved sequence has the length of the input sequence   *)
(* with the elements at the same indices, and every scalar or null value   *)
(* that is not inside a schema leaf appears unchanged at the same          *)
(* position.                                                               *)

\* the places that are not a schema leaf and not inside one
OutsideLeaves ==
    {p \in Positions(InputTree) :
        \A n \in 1..Len(p) : ~IsSchemaLeaf(At(InputTree, SubSeq(p, 1, n)))}

C22_ShapePreserved ==
    pc = "ready" =>
        \A p \in OutsideLeaves :
            LET node == At(InputTree, p)
                out == At(cfg[2], p)
            IN  IF IsMap(node)
                THEN (p = <<>> \/ IsContainer(node)) =>
                        IsMap(out) /\ Keys(out) = Keys(node)
                ELSE IF IsSlice(node)
                THEN IsSlice(out) /\ Len(out[2]) = Len(node[2])
                ELSE out = node

\* a sequence holding a scalar and a container whose leaf was resolved
C22_Witness ==
    /\ pc = "ready"
    /\ \E p \in OutsideLeaves :
          /\ IsSlice(At(InputTree, p))
          /\ Len(At(InputTree, p)[2]) = 2
          /\ ~IsMap(At(InputTree, p)[2][1])
          /\ IsContainer(At(InputTree, p)[2][2])
          /\ At(cfg[2], p)[2][2] # At(InputTree, p)[2][2]

-----------------------------------------------------------------------------
(* Concurrent readers.  Several goroutines call Get on one Config; a step  *)
(* is the call with its top-level lookup, one iteration of the loop of     *)
(* getNested, or the return to the caller.  Here pc and ret are per        *)
(* goroutine: ret[r] holds the locals key, parts, value of the call, the   *)
(* number i of the next part, the place of value in the tree and result.   *)

Readers == {1, 2}

\* the trees the readers share
ReaderTrees ==
    {Map("a" :> Map("a" :> Map("a" :> Str("a")))),
     Map("a" :> Map("a" :> EnvOrDefault) @@ "b" :> Str("a")),
     Map("a" :> Map("a" :> Nil)),
     Map("a" :> Slice(<<Str("a")>>)),
     Map("a.a" :> Str("a")),
     Map(<<>>)}

\* an index expression that creates the entry it does not find
mapAfterIndex_inserting(m, key) ==
    IF Has(m, key) THEN m ELSE Map([k \in Keys(m) \cup {key} |-> Index(m, k)])

\* the map after the index expression m[key]: a read stores nothing
mapAfterIndex(m, key) == m

InitReaders ==
    /\ input \in ReaderTrees
    /\ env \in Envs
    /\ cfg \in {r[1] : r \in NewConfigResults(input, env)}
    /\ err = Nil
    /\ pc = [r \in Readers |-> "idle"]
    /\ ret = [r \in Readers |-> <<>>]
    /\ stack = <<>>
    /\ visits = <<>>

\* Get(key) up to the branch on strings.Contains, the top-level lookup included
GetCall(r) ==
    /\ pc[r] = "idle"
    /\ \E key \in GetKeys :
          IF Contains(key, ".")
          THEN /\ ret' = [ret EXCEPT ![r] =
                            [key |-> key, parts |-> Split(key, "."), i |-> 1,
                             value |-> cfg[2], place |-> <<>>, result |-> Nil]]
               /\ pc' = [pc EXCEPT ![r] = "loop"]
               /\ cfg' = cfg
          ELSE /\ ret' = [ret EXCEPT ![r] =
                            [key |-> key, parts |-> <<>>, i |-> 1,
                             value |-> cfg[2], place |-> <<>>,
                             result |-> Index(cfg[2], StringOf(key))]]
               /\ pc' = [pc EXCEPT ![r] = "returned"]
               /\ cfg' = <<"Config", mapAfterIndex(cfg[2], StringOf(key))>>
    /\ UNCHANGED <<input, env, err, stack, visits>>

\* one iteration of for _, part := range parts, or the return after the loop
GetLoop(r) ==
    /\ pc[r] = "loop"
    /\ LET l == ret[r]
           part == l.parts[l.i]
           return(v) ==
               /\ ret' = [ret EXCEPT ![r].result = v]
               /\ pc' = [pc EXCEPT ![r] = "returned"]
       IN  IF l.i > Len(l.parts)
           THEN return(l.value) /\ cfg' = cfg
           ELSE IF ~IsMap(l.value)
           THEN return(Nil) /\ cfg' = cfg
           ELSE /\ cfg' = <<"Config", Put(cfg[2], l.place, mapAfterIndex(l.value, part))>>
                /\ IF ~Has(l.value, part) \/ Val(l.value, part) = Nil
                   THEN return(Nil)
                   ELSE /\ ret' = [ret EXCEPT ![r].value = Val(l.value, part),
                                              ![r].place = Append(l.place, <<"key", part>>),
                                              ![r].i = l.i + 1]
                        /\ pc' = pc
    /\ UNCHANGED <<input, env, err, stack, visits>>

\* the caller has the result and is free to call again
GetReturn(r) ==
    /\ pc[r] = "returned"
    /\ pc' = [pc EXCEPT ![r] = "idle"]
    /\ ret' = [ret EXCEPT ![r] = <<>>]
    /\ UNCHANGED <<input, env, cfg, err, stack, visits>>

NextReaders == \E r \in Readers : GetCall(r) \/ GetLoop(r) \/ GetReturn(r)

SpecReaders == InitReaders /\ [][NextReaders]_vars

(* C23: Get never creates entries and never mutates the resolved tree:     *)
(* after any sequence of Get calls with any keys, and under any            *)
(* interleaving of concurrent Get calls on the same Config, the resolved   *)
(* tree is unchanged and each Get returns the value it would return if run *)
(* alone.                                                                  *)

C23_GetOnlyReads ==
    [][/\ cfg' = cfg
       /\ \A r \in Readers :
             pc'[r] = "returned" =>
                 ret'[r].result = IndexedBy(cfg[2], Parts(ret'[r].key))]_vars

\* one goroutine returned nil from getNested while the other is inside its loop
C23_Witness ==
    /\ pc[1] = "returned" /\ ret[1].result = Nil /\ Contains(ret[1].key, ".")
    /\ pc[2] = "loop" /\ ret[2].i = 2

-----------------------------------------------------------------------------
(* The run of processRecursively, one entry at a time.  stack holds the    *)
(* calls in progress, the innermost last: a frame of kind "map" is a call  *)
(* of processRecursively on the map at the place `at` of the input, with   *)
(* the keys its range loop has still to yield in todo; a frame of kind     *)
(* "slice" is the loop over the items of the slice at `at`, next being the *)
(* item it yields next.  ret is the root call's processedConfig with all   *)
(* that the calls in progress have stored so far, and visits lists the     *)
(* places of the values the loops have yielded.                            *)

MaxDepth == 8

mapFrame(at) == [kind |-> "map", at |-> at, todo |-> Keys(At(input, at)), next |-> 0]
sliceFrame(at) == [kind |-> "slice", at |-> at, todo |-> {}, next |-> 1]

Top == stack[Len(stack)]
Callers == SubSeq(stack, 1, Len(stack) - 1)
Yielded(key) == Append(Callers, [Top EXCEPT !.todo = @ \ {key}])
Advanced == Append(Callers, [Top EXCEPT !.next = @ + 1])

\* the map the call in progress was made on: a slice is looped over inside the call
callerArgument(frame) ==
    IF frame.kind = "map" THEN frame.at ELSE SubSeq(frame.at, 1, Len(frame.at) - 1)

\* a recursive call made on config itself
calleeArgument_config(at, key) == at

\* c.processRecursively(typedValue): the argument is the value of the key
calleeArgument(at, key) == Append(at, <<"key", key>>)

InitWalk ==
    /\ input \in Trees
    /\ env \in Envs
    /\ pc = "start"
    /\ cfg = Nil
    /\ err = Nil
    /\ ret = <<>>
    /\ stack = <<>>
    /\ visits = <<>>

\* NewConfig calls cfg.processRecursively(cfg.data), which makes processedConfig
WalkStart ==
    /\ pc = "start"
    /\ pc' = "walking"
    /\ stack' = <<mapFrame(<<>>)>>
    /\ ret' = Map(<<>>)
    /\ UNCHANGED <<input, env, cfg, err, visits>>

\* a map that is not nested: processedConfig[key], err = validateAndSetValue(typedValue)
ResolveLeaf ==
    /\ pc = "walking" /\ Top.kind = "map"
    /\ \E key \in Top.todo :
          LET place == Append(Top.at, <<"key", key>>)
              value == At(input, place)
              r == validateAndSetValue(value, env)
          IN  /\ IsMap(value) /\ ~isNestedMap(value)
              /\ visits' = Append(visits, place)
              /\ IF IsOk(r)
                 THEN /\ ret' = Put(ret, place, r[2])
                      /\ stack' = Yielded(key)
                      /\ UNCHANGED <<pc, err>>
                 ELSE /\ ret' = Nil
                      /\ stack' = <<>>
                      /\ pc' = IF IsPanic(r) THEN "panicked" ELSE "failed"
                      /\ err' = IF IsPanic(r) THEN err
                                ELSE Err("[Config-Master]: " \o r[2], r[3])
    /\ UNCHANGED <<input, env, cfg>>

\* a nested map: nestedConfig, err := c.processRecursively(typedValue)
CallNested ==
    /\ pc = "walking" /\ Top.kind = "map"
    /\ Len(stack) < MaxDepth
    /\ \E key \in Top.todo :
          LET place == Append(Top.at, <<"key", key>>)
              value == At(input, place)
              callee == calleeArgument(Top.at, key)
          IN  /\ IsMap(value) /\ isNestedMap(value)
              /\ visits' = Append(visits, place)
              /\ ret' = Put(ret, callee, Map(<<>>))
              /\ stack' = Append(Yielded(key), mapFrame(callee))
    /\ UNCHANGED <<input, env, pc, cfg, err>>

\* a slice: processedSlice := make([]interface{}, len(typedValue))
EnterSlice ==
    /\ pc = "walking" /\ Top.kind = "map"
    /\ Len(stack) < MaxDepth
    /\ \E key \in Top.todo :
          LET place == Append(Top.at, <<"key", key>>)
              value == At(input, place)
          IN  /\ IsSlice(value)
              /\ visits' = Append(visits, place)
              /\ ret' = Put(ret, place, Slice([index \in 1..Len(value[2]) |-> Nil]))
              /\ stack' = Append(Yielded(key), sliceFrame(place))
    /\ UNCHANGED <<input, env, pc, cfg, err>>

\* the default case: processedConfig[key] = value
CopyValue ==
    /\ pc = "walking" /\ Top.kind = "map"
    /\ \E key \in Top.todo :
          LET place == Append(Top.at, <<"key", key>>)
              value == At(input, place)
          IN  /\ ~IsMap(value) /\ ~IsSlice(value)
              /\ visits' = Append(visits, place)
              /\ ret' = Put(ret, place, value)
              /\ stack' = Yielded(key)
    /\ UNCHANGED <<input, env, pc, cfg, err>>

\* an item that is a map: processedItem, err := c.processRecursively(nestedItem)
CallItem ==
    /\ pc = "walking" /\ Top.kind = "slice"
    /\ Len(stack) < MaxDepth
    /\ Top.next <= Len(At(input, Top.at)[2])
    /\ LET place == Append(Top.at, <<"index", Top.next>>)
       IN  /\ IsMap(At(input, place))
           /\ visits' = Append(visits, place)
           /\ ret' = Put(ret, place, Map(<<>>))
           /\ stack' = Append(Advanced, mapFrame(place))
    /\ UNCHANGED <<input, env, pc, cfg, err>>

\* any other item: processedSlice[index] = nestedItem
CopyItem ==
    /\ pc = "walking" /\ Top.kind = "slice"
    /\ Top.next <= Len(At(input, Top.at)[2])
    /\ LET place == Append(Top.at, <<"index", Top.next>>)
       IN  /\ ~IsMap(At(input, place))
           /\ visits' = Append(visits, place)
           /\ ret' = Put(ret, place, At(input, place))
           /\ stack' = Advanced
    /\ UNCHANGED <<input, env, pc, cfg, err>>

\* a loop is over: the slice is stored, or the call returns processedConfig, nil
Return ==
    /\ pc = "walking"
    /\ IF Top.kind = "map" THEN Top.todo = {}
       ELSE Top.next > Len(At(input, Top.at)[2])
    /\ stack' = Callers
    /\ IF Callers = <<>>
       THEN /\ pc' = "ready"
            /\ cfg' = <<"Config", ret>>
       ELSE UNCHANGED <<pc, cfg>>
    /\ UNCHANGED <<input, env, err, ret, visits>>

NextWalk ==
    \/ WalkStart \/ ResolveLeaf \/ CallNested \/ EnterSlice
    \/ CopyValue \/ CallItem \/ CopyItem \/ Return

\* the resolver runs synchronously to completion: a step that can be taken is taken
SpecWalk == InitWalk /\ [][NextWalk]_vars /\ WF_vars(NextWalk)

(* C24: for every finite input tree (no cycles), resolve terminates,       *)
(* either with a resolved tree or with an error: each recursive call is    *)
(* made on a strictly smaller sub-value of its argument, and each leaf is  *)
(* visited at most once.  The run ends with a resolved tree and no error,  *)
(* with an error and no tree, or with the run-time error of a panic.       *)

Size(value) == Cardinality(Positions(value))

StrictlyInside(callee, caller) ==
    /\ \E p \in Positions(caller) \ {<<>>} : At(caller, p) = callee
    /\ Size(callee) < Size(caller)

\* a step that makes a recursive call: a call is in progress and a map frame is pushed
RecursiveCall ==
    /\ pc = "walking"
    /\ Len(stack') = Len(stack) + 1
    /\ stack'[Len(stack')].kind = "map"

Terminated == pc \in {"ready", "failed", "panicked"}

====
